---------------------------- MODULE Spec2Model ----------------------------
(***************************************************************************)
(* Model of calculate_reimbursement.py: the outlier classifier, the banded *)
(* receipt component, the outlier formulas and the top-level dispatcher.   *)
(*                                                                         *)
(* Number representation.  The program computes in binary floating point;  *)
(* the model computes the same expressions exactly, in fixed point:        *)
(*   - miles and receipts are integers counting hundredths (cents);        *)
(*   - a rate such as 0.4 or 3.610 is an integer counting thousandths;     *)
(*   - every amount of money the formulas produce (total, return values)   *)
(*     is an integer counting units of 10^-5 dollar = cents * thousandths. *)
(* round(total, 2) rounds to a multiple of 1000 units.  When the exact     *)
(* total lies exactly half way between two cents, the result of the        *)
(* program depends on the representation error of the floating-point sum   *)
(* (calculate_reimbursement(1, 0.01, 0) is 50.01, not 50.0), so at an      *)
(* exact tie the model allows both neighbours.                             *)
(***************************************************************************)
EXTENDS Integers, Sequences, FiniteSets, TLC

VARIABLES
    pc,      \* "ready": no call is active; "returned" / "raised": how the last call ended
    fn,      \* name of the function the caller invoked ("none" when ready)
    args,    \* the arguments of that call, by parameter name
    locals,  \* the local variables the call bound, by name (only those it did bind)
    trace,   \* the functions and branches executed by the call, in order
    ret,     \* the value returned (a sequence: <<>> when nothing was returned)
    exc,     \* the exception that left the call ("none" when it returned)
    stdout,  \* lines written to standard output since the process started
    stderr,  \* lines written to standard error since the process started
    exit_status, \* the exit status of the process (a sequence: <<>> while it runs)
    fs,      \* the project directory the setup validator inspects
    result,  \* the validator's ValidationResult: passed, warnings, errors, messages
    reads    \* the rule files read so far (read_text calls, in order)

vars == <<pc, fn, args, locals, trace, ret, exc, stdout, stderr, exit_status,
          fs, result, reads>>

\* the state of the setup validator, which the reimbursement program leaves alone
validator_vars == <<fs, result, reads>>

-----------------------------------------------------------------------------
(* Bounds of the model. *)

\* days arguments range over -1 .. MaxDays
MaxDays == 6
\* the command line holds up to MaxArgs arguments
MaxArgs == 4
\* every threshold of the program is enumerated with the Near cents on either side of it
Near == 1
\* calls are made while fewer than MaxOut lines have been written
MaxOut == 2

-----------------------------------------------------------------------------
(* Fixed-point helpers. *)

\* n dollars (or miles) as hundredths
Amt(n) == n * 100

\* n dollars as units of 10^-5 dollar
Dollars(n) == n * 100000

\* x (hundredths) multiplied by a rate given in thousandths, in units
Times(x, permille) == x * permille

min(a, b) == IF a <= b THEN a ELSE b


-----------------------------------------------------------------------------
(* The pure functions of calculate_reimbursement.py. *)

\* mutant: the first rule compares receipts with >= instead of >
detect_outlier_case_inclusive(days, miles, receipts) ==
    IF receipts >= Amt(2000) /\ days <= 4 /\ miles <= Amt(100) THEN "gaming_detection"
    ELSE IF receipts > Amt(2300) /\ days <= 5 /\ miles <= Amt(100) THEN "heavy_cap"
    ELSE IF days = 1 /\ miles > Amt(1000) /\ receipts > Amt(1800) THEN "abuse_detection"
    ELSE "normal"

\* mutant: the heavy_cap rule is tested before the gaming_detection rule
detect_outlier_case_heavy_first(days, miles, receipts) ==
    IF receipts > Amt(2300) /\ days <= 5 /\ miles <= Amt(100) THEN "heavy_cap"
    ELSE IF receipts > Amt(2000) /\ days <= 4 /\ miles <= Amt(100) THEN "gaming_detection"
    ELSE IF days = 1 /\ miles > Amt(1000) /\ receipts > Amt(1800) THEN "abuse_detection"
    ELSE "normal"

\* mutant: the heavy_cap rule admits any trip of up to 6 days
detect_outlier_case_heavy_to_6(days, miles, receipts) ==
    IF receipts > Amt(2000) /\ days <= 4 /\ miles <= Amt(100) THEN "gaming_detection"
    ELSE IF receipts > Amt(2300) /\ days <= 6 /\ miles <= Amt(100) THEN "heavy_cap"
    ELSE IF days = 1 /\ miles > Amt(1000) /\ receipts > Amt(1800) THEN "abuse_detection"
    ELSE "normal"

\* detect_outlier_case: days an integer, miles and receipts in hundredths
detect_outlier_case(days, miles, receipts) ==
    IF receipts > Amt(2000) /\ days <= 4 /\ miles <= Amt(100) THEN "gaming_detection"
    ELSE IF receipts > Amt(2300) /\ days <= 5 /\ miles <= Amt(100) THEN "heavy_cap"
    ELSE IF days = 1 /\ miles > Amt(1000) /\ receipts > Amt(1800) THEN "abuse_detection"
    ELSE "normal"

\* the branch of calculate_receipt_component that total_receipts_amount selects
receipt_tier(total_receipts_amount) ==
    IF total_receipts_amount > Amt(1000) THEN "over_1000"
    ELSE IF total_receipts_amount > Amt(500) THEN "over_500"
    ELSE IF total_receipts_amount > Amt(200) THEN "over_200"
    ELSE IF total_receipts_amount > Amt(50) THEN "over_50"
    ELSE "lowest"

\* mutant: every base is the tier below evaluated at its upper bound (marginal rates)
calculate_receipt_component_marginal(total_receipts_amount) ==
    LET at50 == Times(Amt(50), 3610)
        at200 == at50 + Times(Amt(150), 2258)
        at500 == at200 + Times(Amt(300), 1610)
        at1000 == at500 + Times(Amt(500), 998)
    IN  IF total_receipts_amount > Amt(1000)
        THEN at1000 + Times(total_receipts_amount - Amt(1000), 300)
        ELSE IF total_receipts_amount > Amt(500)
        THEN at500 + Times(total_receipts_amount - Amt(500), 998)
        ELSE IF total_receipts_amount > Amt(200)
        THEN at200 + Times(total_receipts_amount - Amt(200), 1610)
        ELSE IF total_receipts_amount > Amt(50)
        THEN at50 + Times(total_receipts_amount - Amt(50), 2258)
        ELSE Times(total_receipts_amount, 3610)

\* mutant: each boundary value belongs to the upper tier (>= instead of >)
calculate_receipt_component_inclusive(total_receipts_amount) ==
    IF total_receipts_amount >= Amt(1000)
    THEN Times(Amt(1000), 998) + Times(total_receipts_amount - Amt(1000), 300)
    ELSE IF total_receipts_amount >= Amt(500)
    THEN Times(Amt(500), 1610) + Times(total_receipts_amount - Amt(500), 998)
    ELSE IF total_receipts_amount >= Amt(200)
    THEN Times(Amt(200), 2258) + Times(total_receipts_amount - Amt(200), 1610)
    ELSE IF total_receipts_amount >= Amt(50)
    THEN Times(Amt(50), 3610) + Times(total_receipts_amount - Amt(50), 2258)
    ELSE Times(total_receipts_amount, 3610)

\* calculate_receipt_component: hundredths in, units out
calculate_receipt_component(total_receipts_amount) ==
    IF total_receipts_amount > Amt(1000)
    THEN LET base == Times(Amt(1000), 998)
             excess == Times(total_receipts_amount - Amt(1000), 300)
         IN  base + excess
    ELSE IF total_receipts_amount > Amt(500)
    THEN LET base == Times(Amt(500), 1610)
             excess == Times(total_receipts_amount - Amt(500), 998)
         IN  base + excess
    ELSE IF total_receipts_amount > Amt(200)
    THEN LET base == Times(Amt(200), 2258)
             excess == Times(total_receipts_amount - Amt(200), 1610)
         IN  base + excess
    ELSE IF total_receipts_amount > Amt(50)
    THEN LET base == Times(Amt(50), 3610)
             excess == Times(total_receipts_amount - Amt(50), 2258)
         IN  base + excess
    ELSE Times(total_receipts_amount, 3610)

\* mutant: the spending_cap branch does not cap the receipts
calculate_outlier_reimbursement_uncapped(days, miles, receipts, outlier_type) ==
    IF outlier_type = "heavy_cap"
    THEN Dollars(days * 45) + Times(miles, 400) + Times(receipts, 150)
    ELSE IF outlier_type = "abuse_detection"
    THEN Dollars(days * 40) + Times(miles, 350) + Times(receipts, 120)
    ELSE IF outlier_type = "spending_cap"
    THEN Dollars(days * 50) + Times(miles, 450) + Times(receipts, 200)
    ELSE IF outlier_type = "gaming_detection"
    THEN Dollars(days * 35) + Times(miles, 300) + Times(receipts, 80)
    ELSE Dollars(days * 50) + Times(miles, 500) + Times(receipts, 100)

\* calculate_outlier_reimbursement with the abuse_detection receipt rate at
\* the heavy_cap rate (0.15)
calculate_outlier_reimbursement_abuse_receipts(days, miles, receipts, outlier_type) ==
    IF outlier_type = "heavy_cap"
    THEN LET base_reimbursement == Dollars(days * 45) + Times(miles, 400)
             receipt_component == Times(receipts, 150)
         IN  base_reimbursement + receipt_component
    ELSE IF outlier_type = "abuse_detection"
    THEN LET base_reimbursement == Dollars(days * 40) + Times(miles, 350)
             receipt_component == Times(receipts, 150)
         IN  base_reimbursement + receipt_component
    ELSE IF outlier_type = "spending_cap"
    THEN LET base_reimbursement == Dollars(days * 50) + Times(miles, 450)
             capped_receipts == min(receipts, Amt(days * 250))
             receipt_component == Times(capped_receipts, 200)
         IN  base_reimbursement + receipt_component
    ELSE IF outlier_type = "gaming_detection"
    THEN LET base_reimbursement == Dollars(days * 35) + Times(miles, 300)
             receipt_component == Times(receipts, 80)
         IN  base_reimbursement + receipt_component
    ELSE Dollars(days * 50) + Times(miles, 500) + Times(receipts, 100)

\* calculate_outlier_reimbursement with the abuse_detection mileage rate at
\* the spending_cap rate (0.45)
calculate_outlier_reimbursement_abuse_mileage(days, miles, receipts, outlier_type) ==
    IF outlier_type = "heavy_cap"
    THEN LET base_reimbursement == Dollars(days * 45) + Times(miles, 400)
             receipt_component == Times(receipts, 150)
         IN  base_reimbursement + receipt_component
    ELSE IF outlier_type = "abuse_detection"
    THEN LET base_reimbursement == Dollars(days * 40) + Times(miles, 450)
             receipt_component == Times(receipts, 120)
         IN  base_reimbursement + receipt_component
    ELSE IF outlier_type = "spending_cap"
    THEN LET base_reimbursement == Dollars(days * 50) + Times(miles, 450)
             capped_receipts == min(receipts, Amt(days * 250))
             receipt_component == Times(capped_receipts, 200)
         IN  base_reimbursement + receipt_component
    ELSE IF outlier_type = "gaming_detection"
    THEN LET base_reimbursement == Dollars(days * 35) + Times(miles, 300)
             receipt_component == Times(receipts, 80)
         IN  base_reimbursement + receipt_component
    ELSE Dollars(days * 50) + Times(miles, 500) + Times(receipts, 100)

\* calculate_outlier_reimbursement: units out, not rounded
calculate_outlier_reimbursement(days, miles, receipts, outlier_type) ==
    IF outlier_type = "heavy_cap"
    THEN LET base_reimbursement == Dollars(days * 45) + Times(miles, 400)
             receipt_component == Times(receipts, 150)
         IN  base_reimbursement + receipt_component
    ELSE IF outlier_type = "abuse_detection"
    THEN LET base_reimbursement == Dollars(days * 40) + Times(miles, 350)
             receipt_component == Times(receipts, 120)
         IN  base_reimbursement + receipt_component
    ELSE IF outlier_type = "spending_cap"
    THEN LET base_reimbursement == Dollars(days * 50) + Times(miles, 450)
             capped_receipts == min(receipts, Amt(days * 250))
             receipt_component == Times(capped_receipts, 200)
         IN  base_reimbursement + receipt_component
    ELSE IF outlier_type = "gaming_detection"
    THEN LET base_reimbursement == Dollars(days * 35) + Times(miles, 300)
             receipt_component == Times(receipts, 80)
         IN  base_reimbursement + receipt_component
    ELSE Dollars(days * 50) + Times(miles, 500) + Times(receipts, 100)

-----------------------------------------------------------------------------
(* Argument values and Python's coercions.                                  *)
(* A raw argument is [kind, v]:                                             *)
(*   "num"   a Python int or finite float, v its value in hundredths;       *)
(*   "str"   the text that spells the decimal number v / 100 (an integer    *)
(*           is spelled without a decimal point);                           *)
(*   "text"  a string that spells no number;   "None"  the value None;      *)
(*   "inf", "nan"  float('inf') and float('nan');                           *)
(*   "huge"        a string of 400 digits 9: an integer no float can hold   *)
(*                 (int_ gives it a value above every other days value).    *)

Num(v) == [kind |-> "num", v |-> v]
Str(v) == [kind |-> "str", v |-> v]
Special(k) == [kind |-> k, v |-> 0]
Huge == [kind |-> "huge", v |-> Amt(MaxDays + 1)]

\* truncation toward zero of v hundredths
Trunc(v) == IF v >= 0 THEN v \div 100 ELSE -((-v) \div 100)

\* int(x): the integer, or the exception int() raises
int_(x) ==
    CASE x.kind = "num"  -> [exc |-> "none", v |-> Trunc(x.v)]
      [] x.kind = "str"  -> IF x.v % 100 = 0
                            THEN [exc |-> "none", v |-> x.v \div 100]
                            ELSE [exc |-> "ValueError", v |-> 0]
      [] x.kind = "text" -> [exc |-> "ValueError", v |-> 0]
      [] x.kind = "nan"  -> [exc |-> "ValueError", v |-> 0]
      [] x.kind = "None" -> [exc |-> "TypeError", v |-> 0]
      [] x.kind = "inf"  -> [exc |-> "OverflowError", v |-> 0]
      [] x.kind = "huge" -> [exc |-> "none", v |-> x.v \div 100]

\* float(x) for the finite arguments of the model: hundredths, or the exception
float_(x) ==
    CASE x.kind = "num"  -> [exc |-> "none", v |-> x.v]
      [] x.kind = "str"  -> [exc |-> "none", v |-> x.v]
      [] x.kind = "text" -> [exc |-> "ValueError", v |-> 0]
      [] x.kind = "None" -> [exc |-> "TypeError", v |-> 0]

\* mutant: the total is returned without rounding
round2_omitted(total) == {total}

\* round(total, 2): the multiples of 1000 units nearest to total
round2(total) ==
    LET q == total \div 1000
        rem == total % 1000
    IN  IF rem < 500 THEN {q * 1000}
        ELSE IF rem > 500 THEN {(q + 1) * 1000}
        ELSE {q * 1000, (q + 1) * 1000}

\* the text of str(e) for the exceptions the dispatcher catches
message(e) ==
    IF e = "TypeError" THEN "argument must be a string or a real number"
    ELSE IF e = "OverflowError" THEN "cannot convert float infinity to integer"
    ELSE "invalid literal"

NoLocals == <<>>

\* the outcome of a try block that raised: the locals bound so far, no call
\* made, the exception and the text of its message
raised(L, e, msg) == [locals |-> L, trace |-> <<>>, exc |-> e, msg |-> msg]

\* mutant: the banded component is used from 500 on
receipt_level_high_from_500(receipts) ==
    IF receipts > Amt(500) THEN "high"
    ELSE IF receipts > Amt(200) THEN "medium"
    ELSE "low"

\* mutant: receipts of exactly 800 and exactly 200 take the higher branch
receipt_level_inclusive(receipts) ==
    IF receipts >= Amt(800) THEN "high"
    ELSE IF receipts >= Amt(200) THEN "medium"
    ELSE "low"

\* the branch of the hybrid approach that receipts selects
receipt_level(receipts) ==
    IF receipts > Amt(800) THEN "high"
    ELSE IF receipts > Amt(200) THEN "medium"
    ELSE "low"

\* the normal (hybrid) path of the try block
normal_path(L, T, days, miles, receipts) ==
    IF receipt_level(receipts) = "high"
    THEN LET base_amount == Dollars(100)
             duration_component == Dollars(days * 20)
             mileage_component == Times(miles, 300)
             receipt_component == calculate_receipt_component(receipts)
             total == base_amount + duration_component + mileage_component
                      + receipt_component
         IN  [locals |-> L @@ ("base_amount" :> base_amount)
                           @@ ("duration_component" :> duration_component)
                           @@ ("mileage_component" :> mileage_component)
                           @@ ("receipt_component" :> receipt_component)
                           @@ ("total" :> total),
              trace |-> T \o <<<<"calculate_receipt_component", receipt_tier(receipts)>>>>,
              exc |-> "none", msg |-> ""]
    ELSE IF receipt_level(receipts) = "medium"
    THEN LET base_amount == Dollars(50)
             duration_component == Dollars(days * 35)
             mileage_component == Times(miles, 400)
             receipt_component == Times(receipts, 800)
             total == base_amount + duration_component + mileage_component
                      + receipt_component
         IN  [locals |-> L @@ ("base_amount" :> base_amount)
                           @@ ("duration_component" :> duration_component)
                           @@ ("mileage_component" :> mileage_component)
                           @@ ("receipt_component" :> receipt_component)
                           @@ ("total" :> total),
              trace |-> T, exc |-> "none", msg |-> ""]
    ELSE LET duration_component == Dollars(days * 50)
             mileage_component == Times(miles, 500)
             receipt_component == Times(receipts, 100)
             total == duration_component + mileage_component + receipt_component
         IN  [locals |-> L @@ ("duration_component" :> duration_component)
                           @@ ("mileage_component" :> mileage_component)
                           @@ ("receipt_component" :> receipt_component)
                           @@ ("total" :> total),
              trace |-> T, exc |-> "none", msg |-> ""]

\* the branch of calculate_outlier_reimbursement that outlier_type selects
outlier_branch(outlier_type) ==
    IF outlier_type \in {"heavy_cap", "abuse_detection", "spending_cap", "gaming_detection"}
    THEN outlier_type
    ELSE "fallback"

\* mutant: the tag is computed but every input takes the normal path
dispatch_ignores_tag(L, days, miles, receipts) ==
    LET outlier_type == detect_outlier_case(days, miles, receipts)
    IN  normal_path(L @@ ("outlier_type" :> outlier_type),
                    <<<<"detect_outlier_case", outlier_type>>>>, days, miles, receipts)

\* the try block from the classification on, for validated days, miles, receipts
dispatch(L, days, miles, receipts) ==
    LET outlier_type == detect_outlier_case(days, miles, receipts)
        L1 == L @@ ("outlier_type" :> outlier_type)
        T1 == <<<<"detect_outlier_case", outlier_type>>>>
    IN  IF outlier_type # "normal"
        THEN LET total == calculate_outlier_reimbursement(days, miles, receipts,
                                                          outlier_type)
             IN  [locals |-> L1 @@ ("total" :> total),
                  trace |-> T1 \o <<<<"calculate_outlier_reimbursement",
                                     outlier_branch(outlier_type)>>>>,
                  exc |-> "none", msg |-> ""]
        ELSE normal_path(L1, T1, days, miles, receipts)

\* the try block of calculate_reimbursement: coercion, validation, dispatch
try_block(a) ==
    LET d == int_(a.trip_duration_days)
    IN  IF d.exc # "none" THEN raised(NoLocals, d.exc, message(d.exc))
        ELSE
    LET L1 == "days" :> d.v
        m == float_(a.miles_traveled)
    IN  IF m.exc # "none" THEN raised(L1, m.exc, message(m.exc))
        ELSE
    LET L2 == L1 @@ ("miles" :> m.v)
        r == float_(a.total_receipts_amount)
    IN  IF r.exc # "none" THEN raised(L2, r.exc, message(r.exc))
        ELSE
    LET L3 == L2 @@ ("receipts" :> r.v)
    IN  IF d.v <= 0 \/ m.v < 0 \/ r.v < 0
        THEN raised(L3, "ValueError", "Invalid input values")
        ELSE IF a.trip_duration_days.kind = "huge"
        THEN \* detect_outlier_case divides a float by days first
             raised(L3, "OverflowError", "int too large to convert to float")
        ELSE dispatch(L3, d.v, m.v, r.v)

-----------------------------------------------------------------------------
(* The arguments the model calls the functions with. *)

\* the thresholds the program compares receipts and miles with, in dollars / miles
ReceiptThresholds == {0, 50, 200, 500, 800, 1000, 1800, 2000, 2300}
MileThresholds == {0, 100, 1000}

NearBy == (0 - Near) .. Near

\* receipts in hundredths: around every threshold, and the amounts of the worked cases
ReceiptValues ==
    {Amt(t) + k : t \in ReceiptThresholds, k \in NearBy}
        \cup {Amt(900), Amt(1809), Amt(2321), Amt(2350)}

\* miles in hundredths
MileValues ==
    {Amt(t) + k : t \in MileThresholds, k \in NearBy}
        \cup {Amt(50), Amt(69), Amt(300), Amt(1082), Amt(20000), Amt(25000)}
        \* where 0.05 * miles = 778 + 0.18 * receipts for receipts of 1809
        \cup {Amt(22072) + 40 + k : k \in NearBy}

DayValues == (0 - 1) .. MaxDays

\* raw arguments of calculate_reimbursement
RawDays ==
    {Num(Amt(d)) : d \in DayValues} \cup {Num(50), Num(150), Num(0 - 50)}
        \cup {Str(Amt(0)), Str(Amt(1)), Str(Amt(4)), Str(150)}
        \cup {Special("text"), Special("None"), Special("inf"), Special("nan")}

RawMiles ==
    {Num(m) : m \in MileValues} \cup {Str(Amt(69)), Str(0 - 1)}
        \cup {Special("text"), Special("None")}

RawReceipts ==
    {Num(r) : r \in ReceiptValues} \cup {Str(Amt(2321)), Str(0 - 1)}
        \cup {Special("text"), Special("None")}

\* command-line arguments are strings
CliDays ==
    {Str(Amt(d)) : d \in DayValues} \cup {Str(150), Special("text"), Huge}
CliMiles == {Str(m) : m \in MileValues} \cup {Special("text")}
CliReceipts == {Str(r) : r \in ReceiptValues} \cup {Special("text")}

\* argument lists whose length is not 3
OtherArgvs ==
    UNION {[1 .. n -> {Str(Amt(1)), Special("text")}] : n \in (0 .. MaxArgs) \ {3}}

OutlierTypes ==
    {"heavy_cap", "abuse_detection", "spending_cap", "gaming_detection", "normal", "other"}

-----------------------------------------------------------------------------
(* The state machine: one Python process in which a caller invokes the     *)
(* module's functions one after the other.                                 *)

NoArgs == <<>>

\* no project directory is inspected, no ValidationResult exists
NoProject == <<>>
NoResult == <<>>

Init ==
    /\ pc = "ready"
    /\ fn = "none"
    /\ args = NoArgs
    /\ locals = NoLocals
    /\ trace = <<>>
    /\ ret = <<>>
    /\ exc = "none"
    /\ stdout = <<>>
    /\ stderr = <<>>
    /\ exit_status = <<>>
    /\ fs = NoProject
    /\ result = NoResult
    /\ reads = <<>>

CanCall == pc = "ready" /\ Len(stdout) < MaxOut /\ Len(stderr) < MaxOut

\* mutant: the except clause prints nothing
printed_never(b) == <<>>

\* the lines the except clause of calculate_reimbursement prints, given the
\* outcome b of the try block: print(f"Error: {e}") for a caught exception
printed(b) ==
    IF b.exc \in {"ValueError", "TypeError"} THEN <<"Error: " \o b.msg>> ELSE <<>>

\* the possible outcomes of one call of calculate_reimbursement on raw arguments
\* a: the value returned, the exception that leaves the call, the lines printed
\* to standard output and to standard error, the locals bound and the calls made
call_outcomes(a) ==
    LET b == try_block(a)
    IN  IF b.exc = "none"
        THEN \* return round(total, 2)
             {[ret |-> <<x>>, exc |-> "none", out |-> printed(b), err |-> <<>>,
               msg |-> b.msg, locals |-> b.locals, trace |-> b.trace] : x \in round2(b.locals["total"])}
        ELSE IF b.exc \in {"ValueError", "TypeError"}
        THEN \* except (ValueError, TypeError) as e: print(f"Error: {e}"); return 0.0
             {[ret |-> <<0>>, exc |-> "none", out |-> printed(b), err |-> <<>>,
               msg |-> b.msg, locals |-> b.locals, trace |-> b.trace]}
        ELSE \* any other exception leaves the function
             {[ret |-> <<>>, exc |-> b.exc, out |-> printed(b), err |-> <<>>,
               msg |-> b.msg, locals |-> b.locals, trace |-> b.trace]}

\* calculate_reimbursement(trip_duration_days, miles_traveled, total_receipts_amount)
calculate_reimbursement(a) ==
    /\ CanCall
    /\ \E o \in call_outcomes(a) :
          /\ fn' = "calculate_reimbursement"
          /\ args' = a
          /\ locals' = o.locals
          /\ trace' = o.trace
          /\ ret' = o.ret
          /\ exc' = o.exc
          /\ pc' = IF o.exc = "none" THEN "returned" ELSE "raised"
          /\ stdout' = stdout \o o.out
          /\ stderr' = stderr \o o.err
    /\ UNCHANGED <<exit_status, validator_vars>>

\* mutant: the per-day ratios are computed without the days > 0 guard
per_day_unguarded(x, days) ==
    IF days = 0 THEN [exc |-> "ZeroDivisionError", v |-> 0]
    ELSE IF days > 0 THEN [exc |-> "none", v |-> x \div days]
    ELSE [exc |-> "none", v |-> 0 - (x \div (0 - days))]

\* x / days if days > 0 else 0: the two per-day ratios detect_outlier_case
\* computes first (and never reads); the quotient is kept in whole hundredths
per_day(x, days) ==
    IF days > 0 THEN [exc |-> "none", v |-> x \div days]
    ELSE [exc |-> "none", v |-> 0]

\* a direct call of detect_outlier_case(days, miles, receipts)
call_detect_outlier_case(d, m, r) ==
    LET receipts_per_day == per_day(r, d)
        miles_per_day == per_day(m, d)
        failed == receipts_per_day.exc # "none" \/ miles_per_day.exc # "none"
    IN  /\ CanCall
        /\ fn' = "detect_outlier_case"
        /\ args' = [days |-> d, miles |-> m, receipts |-> r]
        /\ IF failed
           THEN /\ locals' = NoLocals
                /\ trace' = <<>>
                /\ ret' = <<>>
                /\ exc' = IF receipts_per_day.exc # "none" THEN receipts_per_day.exc
                          ELSE miles_per_day.exc
                /\ pc' = "raised"
           ELSE /\ locals' = ("receipts_per_day" :> receipts_per_day.v)
                             @@ ("miles_per_day" :> miles_per_day.v)
                /\ trace' = <<<<"detect_outlier_case", detect_outlier_case(d, m, r)>>>>
                /\ ret' = <<detect_outlier_case(d, m, r)>>
                /\ exc' = "none"
                /\ pc' = "returned"
        /\ UNCHANGED <<stdout, stderr, exit_status, validator_vars>>

\* a direct call of calculate_receipt_component(total_receipts_amount)
call_calculate_receipt_component(r) ==
    /\ CanCall
    /\ fn' = "calculate_receipt_component"
    /\ args' = [total_receipts_amount |-> r]
    /\ locals' = NoLocals
    /\ trace' = <<<<"calculate_receipt_component", receipt_tier(r)>>>>
    /\ ret' = <<calculate_receipt_component(r)>>
    /\ pc' = "returned"
    /\ UNCHANGED <<exc, stdout, stderr, exit_status, validator_vars>>

\* a direct call of calculate_outlier_reimbursement(days, miles, receipts, outlier_type)
call_calculate_outlier_reimbursement(d, m, r, t) ==
    /\ CanCall
    /\ fn' = "calculate_outlier_reimbursement"
    /\ args' = [days |-> d, miles |-> m, receipts |-> r, outlier_type |-> t]
    /\ locals' = NoLocals
    /\ trace' = <<<<"calculate_outlier_reimbursement", outlier_branch(t)>>>>
    /\ ret' = <<calculate_outlier_reimbursement(d, m, r, t)>>
    /\ pc' = "returned"
    /\ UNCHANGED <<exc, stdout, stderr, exit_status, validator_vars>>

\* the caller takes the result (or handles the exception) and goes on; the
\* frame of the finished call is gone
caller_continues ==
    /\ pc \in {"returned", "raised"}
    /\ pc' = "ready"
    /\ fn' = "none"
    /\ args' = NoArgs
    /\ locals' = NoLocals
    /\ trace' = <<>>
    /\ ret' = <<>>
    /\ exc' = "none"
    /\ UNCHANGED <<stdout, stderr, exit_status, validator_vars>>

\* the usage line of the command-line program
Usage ==
    "Usage: python calculate_reimbursement.py <trip_duration_days> <miles_traveled> <total_receipts_amount>"

\* what print(result) writes for a float with at most two decimals (money in
\* units of 1/100000): the shortest decimal that reads back, "0.0", "50.01", "1434.2"
repr_float_two_places(x) ==
    LET cents == x \div 1000
        frac == cents % 100
    IN  ToString(cents \div 100) \o "." \o
        (IF frac < 10 THEN "0" ELSE "") \o ToString(frac)

repr_float(x) ==
    LET cents == x \div 1000
        frac == cents % 100
    IN  ToString(cents \div 100) \o "." \o
        (IF frac % 10 = 0 THEN ToString(frac \div 10)
         ELSE IF frac < 10 THEN "0" \o ToString(frac)
         ELSE ToString(frac))

\* the process has just started: nothing called, nothing written
FreshProcess ==
    /\ pc = "ready"
    /\ stdout = <<>>
    /\ stderr = <<>>
    /\ exit_status = <<>>

\* mutant: only too few arguments are refused
wrong_count_too_few(av) == Len(av) + 1 < 4

\* len(sys.argv) != 4, for the arguments av after the program name
wrong_count(av) == Len(av) + 1 # 4

\* the command-line program, run with the arguments av (sys.argv[1:])
main(av) ==
    /\ FreshProcess
    /\ fn' = "__main__"
    /\ args' = [argv |-> av]
    /\ pc' = "exited"
    /\ UNCHANGED validator_vars
    /\ IF wrong_count(av)
       THEN \* print("Usage: ..."); sys.exit(1)
            /\ stdout' = stdout \o <<Usage>>
            /\ stderr' = stderr
            /\ exit_status' = <<1>>
            /\ locals' = NoLocals
            /\ trace' = <<>>
            /\ ret' = <<>>
            /\ exc' = "none"
       ELSE \E o \in call_outcomes([trip_duration_days |-> av[1],
                                    miles_traveled |-> av[2],
                                    total_receipts_amount |-> av[3]]) :
            LET L == ("days" :> av[1]) @@ ("miles" :> av[2]) @@ ("receipts" :> av[3])
            IN  /\ ret' = <<>>
                /\ exc' = "none"
                /\ IF o.exc = "none"
                   THEN \* result = calculate_reimbursement(days, miles, receipts); print(result)
                        /\ locals' = L @@ ("result" :> o.ret[1])
                        /\ trace' = <<<<"calculate_reimbursement", "returned">>>> \o o.trace
                        /\ stdout' = (stdout \o o.out) \o <<repr_float(o.ret[1])>>
                        /\ stderr' = stderr \o o.err
                        /\ exit_status' = <<0>>
                   ELSE \* except Exception as e: print(f"Error: {e}"); sys.exit(1)
                        /\ locals' = L @@ ("e" :> o.exc)
                        /\ trace' = <<<<"calculate_reimbursement", "raised">>>> \o o.trace
                        /\ stdout' = (stdout \o o.out) \o <<"Error: " \o o.msg>>
                        /\ stderr' = stderr \o o.err
                        /\ exit_status' = <<1>>

\* the shell starts the command-line program with three arguments
invoke_main ==
    FreshProcess /\ \E d \in CliDays, m \in CliMiles, r \in CliReceipts :
        main(<<d, m, r>>)

\* the shell starts the command-line program with another number of arguments
invoke_main_wrong_count ==
    FreshProcess /\ \E av \in OtherArgvs : main(av)

\* the caller invokes one of the functions, with arguments of the model
invoke_calculate_reimbursement ==
    CanCall /\ \E d \in RawDays, m \in RawMiles, r \in RawReceipts :
        calculate_reimbursement([trip_duration_days |-> d, miles_traveled |-> m,
                                 total_receipts_amount |-> r])

invoke_detect_outlier_case ==
    CanCall /\ \E d \in DayValues, m \in MileValues, r \in ReceiptValues :
        call_detect_outlier_case(d, m, r)

invoke_calculate_receipt_component ==
    CanCall /\ \E r \in ReceiptValues : call_calculate_receipt_component(r)

invoke_calculate_outlier_reimbursement ==
    CanCall /\ \E d \in DayValues, m \in MileValues, r \in ReceiptValues,
                  t \in OutlierTypes :
        call_calculate_outlier_reimbursement(d, m, r, t)

Next ==
    \/ invoke_calculate_reimbursement
    \/ invoke_detect_outlier_case
    \/ invoke_calculate_receipt_component
    \/ invoke_calculate_outlier_reimbursement
    \/ caller_continues
    \/ invoke_main
    \/ invoke_main_wrong_count

Spec == Init /\ [][Next]_vars

-----------------------------------------------------------------------------
(* Vocabulary of the properties. *)

\* a call of calculate_reimbursement has ended (either way)
EndedCR == pc # "ready" /\ fn = "calculate_reimbursement"

\* a call of calculate_reimbursement has returned a value
ReturnedCR == pc = "returned" /\ fn = "calculate_reimbursement"

\* a direct call of helper f has returned
Returned(f) == pc = "returned" /\ fn = f

\* the raw argument is a number (or spells one)
IsNumber(x) == x.kind \in {"num", "str"}

\* the arguments are a valid trip: days an integer >= 1, miles >= 0, receipts >= 0
ValidInput(a) ==
    /\ IsNumber(a.trip_duration_days)
    /\ IsNumber(a.miles_traveled)
    /\ IsNumber(a.total_receipts_amount)
    /\ a.trip_duration_days.v % 100 = 0
    /\ a.trip_duration_days.v >= Amt(1)
    /\ a.miles_traveled.v >= 0
    /\ a.total_receipts_amount.v >= 0

\* the arguments of the ended call of calculate_reimbursement, as numbers
ArgDays == args.trip_duration_days.v \div 100
ArgMiles == args.miles_traveled.v
ArgReceipts == args.total_receipts_amount.v

\* the call was calculate_reimbursement(d, m, r) with numbers: d days, m miles
\* and r receipts, both in hundredths
CalledWith(d, m, r) ==
    /\ EndedCR
    /\ args = [trip_duration_days |-> Num(Amt(d)), miles_traveled |-> Num(m),
               total_receipts_amount |-> Num(r)]

\* x is `exact` rounded to two decimals
RoundedFrom(x, exact) == x % 1000 = 0 /\ x - exact >= 0 - 500 /\ x - exact <= 500

-----------------------------------------------------------------------------
C2_Gaming(d, m, r) == r > Amt(2000) /\ d <= 4 /\ m <= Amt(100)
C2_Heavy(d, m, r) == r > Amt(2300) /\ d <= 5 /\ m <= Amt(100)
C2_Abuse(d, m, r) == d = 1 /\ m > Amt(1000) /\ r > Amt(1800)

C4_Case152IsHeavyCap ==
    CalledWith(4, Amt(69), Amt(2321)) =>
        /\ pc = "returned"
        /\ locals["outlier_type"] = "heavy_cap"
        /\ ret = <<Dollars(555) + 75000>>

\* C5: the banded receipt component is continuous at every band boundary: at
\* each of receipts = 50, 200, 500 and 1000 the value of the lower tier's formula
\* at the boundary equals the base term of the next tier's formula, so there is
\* no jump when receipts crosses a boundary.

\* the band boundary (in dollars) below receipts r, and the rate above it
C5_BoundaryBelow(r) ==
    IF r > Amt(1000) THEN 1000 ELSE IF r > Amt(500) THEN 500
    ELSE IF r > Amt(200) THEN 200 ELSE 50
C5_RateAbove(b) ==
    CASE b = 50 -> 2258 [] b = 200 -> 1610 [] b = 500 -> 998 [] b = 1000 -> 300

\* the base term of the tier used for the returned value: the value less the excess
C5_BaseTerm ==
    LET r == args.total_receipts_amount
        b == C5_BoundaryBelow(r)
    IN  ret[1] - Times(r - Amt(b), C5_RateAbove(b))

\* the claim as stated: above every boundary, the base term is the value at the boundary
C5_ContinuousEverywhere ==
    (Returned("calculate_receipt_component") /\ args.total_receipts_amount > Amt(50)) =>
        C5_BaseTerm
            = calculate_receipt_component(Amt(C5_BoundaryBelow(args.total_receipts_amount)))

\* the drop of the component at a boundary: 0 at 50, 67.60 at 200, 129.60 at 500
\* and 306.00 at 1000
C5_Drop(b) ==
    CASE b = 50 -> 0
      [] b = 200 -> Dollars(67) + 60000
      [] b = 500 -> Dollars(129) + 60000
      [] b = 1000 -> Dollars(306)

\* as amended: the component is continuous at 50 only; at 200, 500 and 1000 the
\* base term of the next tier is lower than the value at the boundary by 67.60,
\* 129.60 and 306.00
C5_ContinuousAt50Only ==
    (Returned("calculate_receipt_component") /\ args.total_receipts_amount > Amt(50)) =>
        LET b == C5_BoundaryBelow(args.total_receipts_amount)
        IN  C5_BaseTerm = calculate_receipt_component(Amt(b)) - C5_Drop(b)

\* the component was evaluated one cent above 200 and came out below its value at 200
C5_Witness ==
    /\ Returned("calculate_receipt_component")
    /\ args.total_receipts_amount = Amt(200) + 1
    /\ ret[1] < calculate_receipt_component(Amt(200))

\* C6: calculate_receipt_component(r) equals, for every r >= 0: r*3.610 when
\* r <= 50; 50*3.610 + (r-50)*2.258 when 50 < r <= 200; 200*2.258 + (r-200)*1.610
\* when 200 < r <= 500; 500*1.610 + (r-500)*0.998 when 500 < r <= 1000;
\* 1000*0.998 + (r-1000)*0.3 when r > 1000.
C6_Table(r) ==
    CASE r <= Amt(50) -> Times(r, 3610)
      [] Amt(50) < r /\ r <= Amt(200) -> Times(Amt(50), 3610) + Times(r - Amt(50), 2258)
      [] Amt(200) < r /\ r <= Amt(500) -> Times(Amt(200), 2258) + Times(r - Amt(200), 1610)
      [] Amt(500) < r /\ r <= Amt(1000) -> Times(Amt(500), 1610) + Times(r - Amt(500), 998)
      [] r > Amt(1000) -> Times(Amt(1000), 998) + Times(r - Amt(1000), 300)

C6_ReceiptComponentTable ==
    (Returned("calculate_receipt_component") /\ args.total_receipts_amount >= 0) =>
        ret = <<C6_Table(args.total_receipts_amount)>>

\* the component was evaluated at receipts = 500 exactly, with the (200, 500] formula
C6_Witness ==
    /\ Returned("calculate_receipt_component")
    /\ args.total_receipts_amount = Amt(500)
    /\ ret = <<Dollars(934) + 60000>>

\* C7: for every valid input that the classifier tags normal,
\* calculate_reimbursement returns, rounded to 2 decimals:
\* 100 + 20*days + 0.3*miles + banded(receipts) when receipts > 800;
\* 50 + 35*days + 0.4*miles + 0.8*receipts when 200 < receipts <= 800;
\* 50*days + 0.5*miles + 0.1*receipts when receipts <= 200.
\* In particular (1, 0, 0) gives 50.00 and (2, 300, 900) gives 1434.20.
C7_Formula(d, m, r) ==
    CASE r > Amt(800) -> Dollars(100 + 20 * d) + Times(m, 300) + C6_Table(r)
      [] Amt(200) < r /\ r <= Amt(800) -> Dollars(50 + 35 * d) + Times(m, 400) + Times(r, 800)
      [] r <= Amt(200) -> Dollars(50 * d) + Times(m, 500) + Times(r, 100)

C7_NormalFormulas ==
    /\ (/\ EndedCR
        /\ ValidInput(args)
        /\ "outlier_type" \in DOMAIN locals
        /\ locals["outlier_type"] = "normal") =>
            /\ pc = "returned"
            /\ RoundedFrom(ret[1], C7_Formula(ArgDays, ArgMiles, ArgReceipts))
    /\ CalledWith(1, 0, 0) => ret = <<Dollars(50)>>
    /\ CalledWith(2, Amt(300), Amt(900)) => ret = <<Dollars(1434) + 20000>>

\* calculate_reimbursement(2, 300, 900) has returned 1434.20 on the normal path
C7_Witness ==
    /\ CalledWith(2, Amt(300), Amt(900))
    /\ locals["outlier_type"] = "normal"
    /\ ret = <<Dollars(1434) + 20000>>

\* C9: calculate_outlier_reimbursement(days, miles, receipts, tag) returns,
\* unrounded: 45*days + 0.4*miles + 0.15*receipts for heavy_cap;
\* 40*days + 0.35*miles + 0.12*receipts for abuse_detection;
\* 35*days + 0.3*miles + 0.08*receipts for gaming_detection;
\* 50*days + 0.45*miles + 0.2*min(receipts, 250*days) for spending_cap;
\* and 50*days + 0.5*miles + 0.1*receipts for any other tag.
C9_Formula(d, m, r, t) ==
    CASE t = "heavy_cap" -> Dollars(45 * d) + Times(m, 400) + Times(r, 150)
      [] t = "abuse_detection" -> Dollars(40 * d) + Times(m, 350) + Times(r, 120)
      [] t = "gaming_detection" -> Dollars(35 * d) + Times(m, 300) + Times(r, 80)
      [] t = "spending_cap" ->
             Dollars(50 * d) + Times(m, 450)
                 + Times(IF r <= Amt(250 * d) THEN r ELSE Amt(250 * d), 200)
      [] OTHER -> Dollars(50 * d) + Times(m, 500) + Times(r, 100)

C9_OutlierFormulas ==
    Returned("calculate_outlier_reimbursement") =>
        ret = <<C9_Formula(args.days, args.miles, args.receipts, args.outlier_type)>>

\* a spending_cap call in which the cap of 250 a day was lower than the receipts
C9_Witness ==
    /\ Returned("calculate_outlier_reimbursement")
    /\ args.outlier_type = "spending_cap"
    /\ args.days >= 1
    /\ args.receipts > Amt(250 * args.days)
    /\ ret = <<Dollars(50 * args.days) + Times(args.miles, 450)
                 + Times(Amt(250 * args.days), 200)>>

\* C8: for every valid input whose classifier tag is not normal,
\* calculate_reimbursement returns exactly the outlier formula of that tag
\* rounded to 2 decimals, and none of the normal-path formulas (base amounts,
\* banded receipt component) contribute; in particular days=1, miles=1082,
\* receipts=1809 is tagged abuse_detection and yields 635.78.
C8_NormalPathLocals ==
    {"base_amount", "duration_component", "mileage_component", "receipt_component"}

C8_OutlierOnly ==
    /\ (/\ EndedCR
        /\ ValidInput(args)
        /\ "outlier_type" \in DOMAIN locals
        /\ locals["outlier_type"] # "normal") =>
            /\ pc = "returned"
            /\ RoundedFrom(ret[1], C9_Formula(ArgDays, ArgMiles, ArgReceipts,
                                              locals["outlier_type"]))
            /\ DOMAIN locals \cap C8_NormalPathLocals = {}
            /\ \A i \in 1..Len(trace) : trace[i][1] # "calculate_receipt_component"
    /\ CalledWith(1, Amt(1082), Amt(1809)) =>
            /\ locals["outlier_type"] = "abuse_detection"
            /\ ret = <<Dollars(635) + 78000>>

\* calculate_reimbursement(1, 1082, 1809) has returned 635.78 as abuse_detection
C8_Witness ==
    /\ CalledWith(1, Amt(1082), Amt(1809))
    /\ locals["outlier_type"] = "abuse_detection"
    /\ ret = <<Dollars(635) + 78000>>

\* C10: for every input that fails validation (days <= 0 after integer
\* coercion, miles < 0, receipts < 0, or a value that cannot be coerced to a
\* number), calculate_reimbursement returns exactly 0.0 and no exception
\* propagates to the caller; neither classification nor any formula is
\* evaluated for such an input.

\* the argument can be coerced: days to an integer, miles and receipts to a float
C10_DaysCoercible(x) ==
    x.kind \in {"num", "huge"} \/ (x.kind = "str" /\ x.v % 100 = 0)
C10_Coercible(x) == x.kind \in {"num", "str"}

C10_FailsValidation(a) ==
    \/ ~C10_DaysCoercible(a.trip_duration_days)
    \/ ~C10_Coercible(a.miles_traveled)
    \/ ~C10_Coercible(a.total_receipts_amount)
    \/ a.trip_duration_days.v < Amt(1)
    \/ a.miles_traveled.v < 0
    \/ a.total_receipts_amount.v < 0

C10_Rejected ==
    /\ pc = "returned"
    /\ exc = "none"
    /\ ret = <<0>>
    /\ trace = <<>>
    /\ DOMAIN locals \subseteq {"days", "miles", "receipts"}

C10_InvalidReturnsZero ==
    (EndedCR /\ C10_FailsValidation(args)) => C10_Rejected

\* what does hold: every input that fails validation, other than an infinite
\* float given for the days, is rejected with 0.0
C10_ExceptInfiniteDays ==
    (EndedCR /\ C10_FailsValidation(args) /\ args.trip_duration_days.kind # "inf")
        => C10_Rejected

-----------------------------------------------------------------------------
(* The command-line program and the streams. *)

\* the command-line program has run and exited
ExitedMain == pc = "exited" /\ fn = "__main__"

\* the three command-line arguments as the arguments of calculate_reimbursement
CliArgs ==
    [trip_duration_days |-> args.argv[1], miles_traveled |-> args.argv[2],
     total_receipts_amount |-> args.argv[3]]

\* this step is a call of calculate_reimbursement that returns
StepReturnsCR == pc = "ready" /\ pc' = "returned" /\ fn' = "calculate_reimbursement"

\* C11: when calculate_reimbursement rejects an invalid input, its diagnostic
\* message is written to standard error, and the function writes nothing to
\* standard output.
C11_DiagnosticOnStderr ==
    [][(StepReturnsCR /\ C10_FailsValidation(args'))
          => (stdout' = stdout /\ Len(stderr') = Len(stderr) + 1)]_vars

\* C12: run with a number of arguments other than 3, the command-line program
\* exits with status 1, does not call calculate_reimbursement and prints no
\* reimbursement value (all it writes is the usage line).
C12_WrongCountExitsOne ==
    (ExitedMain /\ Len(args.argv) # 3) =>
        /\ exit_status = <<1>>
        /\ trace = <<>>
        /\ "result" \notin DOMAIN locals
        /\ \A i \in DOMAIN stdout : stdout[i] = Usage
        /\ \A i \in DOMAIN stderr : stderr[i] = Usage

\* the program was run with four arguments and has exited
C12_Witness ==
    /\ ExitedMain
    /\ Len(args.argv) = 4
    /\ exit_status = <<1>>

\* C13: run with a number of arguments other than 3, the command-line program
\* writes the usage message to standard error and standard output stays empty.
C13_UsageOnStderr ==
    (ExitedMain /\ Len(args.argv) # 3) =>
        /\ stdout = <<>>
        /\ stderr = <<Usage>>

\* C14: run with exactly 3 arguments that are invalid (days 0, a negative
\* value, text that is no number), the command-line program prints 0.0 as the
\* result on standard output and exits with status 0; with 3 arguments it
\* exits with status 1 only if an exception left calculate_reimbursement.
C14_InvalidPrintsZeroExitsZero ==
    (ExitedMain /\ Len(args.argv) = 3) =>
        /\ exit_status \in {<<0>>, <<1>>}
        /\ C10_FailsValidation(CliArgs) =>
              /\ exit_status = <<0>>
              /\ stdout # <<>>
              /\ stdout[Len(stdout)] = "0.0"
              /\ locals["result"] = 0
        /\ exit_status = <<1>> =>
              /\ trace # <<>>
              /\ trace[1] = <<"calculate_reimbursement", "raised">>
        /\ exit_status = <<0>> =>
              /\ trace # <<>>
              /\ trace[1] = <<"calculate_reimbursement", "returned">>

\* the program was run with days = 0 and has exited with 0.0 printed last
C14_Witness ==
    /\ ExitedMain
    /\ Len(args.argv) = 3
    /\ args.argv[1] = Str(Amt(0))
    /\ args.argv[2] = Str(Amt(69))
    /\ exit_status = <<0>>
    /\ stdout[Len(stdout)] = "0.0"

\* the one way to status 1 with 3 arguments: days too large for a float
C14_ExceptionEscaped ==
    /\ ExitedMain
    /\ Len(args.argv) = 3
    /\ exit_status = <<1>>

\* this step is a call of calculate_reimbursement, however it ends
StepCallsCR == pc = "ready" /\ fn' = "calculate_reimbursement"

\* the lines a stream holds, both streams together
Written(out, err) == Len(out) + Len(err)

\* the diagnostics the except clause can produce
Diagnostics ==
    {"Error: " \o text : text \in {"Invalid input values", message("ValueError"),
                                  message("TypeError")}}

\* C16: calculate_reimbursement is side-effect free for every input, valid
\* or invalid: a call writes nothing to standard output or standard error and
\* changes no state outside its return value.
C16_NoSideEffects ==
    [][StepCallsCR =>
          (stdout' = stdout /\ stderr' = stderr /\ exit_status' = exit_status)]_vars

\* C16 as it holds: a call that accepts its input (or lets an exception
\* escape) writes nothing; a call that rejects its input writes exactly one
\* diagnostic line and then returns 0.0; no call changes anything else.
C16_NoSideEffectsUnlessRejected ==
    [][StepCallsCR =>
          /\ exit_status' = exit_status
          /\ \A i \in DOMAIN stdout : stdout'[i] = stdout[i]
          /\ \A i \in DOMAIN stderr : stderr'[i] = stderr[i]
          /\ IF pc' = "returned" /\ C10_FailsValidation(args')
             THEN /\ Written(stdout', stderr') = Written(stdout, stderr) + 1
                  /\ \A i \in DOMAIN stdout' \ DOMAIN stdout : stdout'[i] \in Diagnostics
                  /\ \A i \in DOMAIN stderr' \ DOMAIN stderr : stderr'[i] \in Diagnostics
                  /\ ret' = <<0>>
             ELSE stdout' = stdout /\ stderr' = stderr]_vars

\* a call has rejected its input and its diagnostic is the last line written
C16_Witness ==
    /\ ReturnedCR
    /\ C10_FailsValidation(args)
    /\ args.miles_traveled = Num(0 - 1)
    /\ stdout # <<>>
    /\ stdout[Len(stdout)] = "Error: Invalid input values"

-----------------------------------------------------------------------------
(* Reachability of the branches. *)

\* the tags the classifier can assign
C17_Tags == {"normal", "gaming_detection", "heavy_cap", "abuse_detection"}

\* the calls a call of calculate_reimbursement made
CallsOfCR ==
    IF EndedCR THEN {trace[i] : i \in DOMAIN trace} ELSE {}

\* the calls a run of the command-line program made
CallsOfMain ==
    IF ExitedMain THEN {trace[i] : i \in DOMAIN trace} ELSE {}

C18_BandedOnlyNormalHigh ==
    \A c \in CallsOfCR :
        c[1] = "calculate_receipt_component" =>
            /\ locals["outlier_type"] = "normal"
            /\ locals["receipts"] > Amt(800)
            /\ c[2] \in {"over_500", "over_1000"}
            /\ c[2] = receipt_tier(locals["receipts"])

\* a call with receipts in (800, 1000] has evaluated the (500, 1000] tier
C18_Witness ==
    /\ ReturnedCR
    /\ <<"calculate_receipt_component", "over_500">> \in CallsOfCR
    /\ locals["receipts"] = Amt(800) + 1

\* C20: calculate_reimbursement returns 0.0 if and only if its input is
\* invalid: every valid input (days >= 1, miles >= 0, receipts >= 0) yields a
\* result of at least 50.00, so a zero result always signals a validation
\* failure.
C20_ZeroIffInvalid ==
    EndedCR =>
        /\ C10_FailsValidation(args) <=> (pc = "returned" /\ ret = <<0>>)
        /\ ~C10_FailsValidation(args) => (pc = "returned" /\ ret[1] >= Dollars(50))

\* what does hold: the same, an infinite float given for the days set aside
C20_ExceptInfiniteDays ==
    (EndedCR /\ args.trip_duration_days.kind # "inf") => C20_ZeroIffInvalid

\* the smallest result of a valid input: one day, no miles, no receipts
C20_SmallestValid ==
    /\ ReturnedCR
    /\ ~C10_FailsValidation(args)
    /\ ret = <<Dollars(50)>>

-----------------------------------------------------------------------------
(* The setup validator, scripts/validate_setup.py.                          *)
(*                                                                          *)
(* The validator inspects a project directory.  The model keeps two of the  *)
(* thirteen required rule files, one that has auto-trigger keywords and one *)
(* that has none, and describes a file by what the validator can see of     *)
(* it.  Colour codes are left out of the printed text, the symbols of the   *)
(* messages are written "pass", "warning", "error", and the arrow of the    *)
(* cross-reference messages is written "->".                                *)

F010 == "010-cursor_general_rules.mdc"
F012 == "012-learned_memories.mdc"

\* self.required_files, in the order of the dictionary
required_files == <<F010, F012>>

\* the description self.required_files gives a file
description(filename) ==
    IF filename = F010 THEN "Central coordination hub" ELSE "Project knowledge storage"

\* self.cross_references: the pattern that refers to target_file
ref_pattern(target_file) ==
    IF target_file = F010 THEN "@010-cursor_general_rules" ELSE "@012-learned_memories"

\* the files validate_integration_keywords has keywords for
keyword_files == {F010}

\* self.placeholders, in the order of the list
placeholders ==
    <<"[PROJECT_NAME]", "[PROJECT_COMMAND_QUALITY]", "[MAIN_LANGUAGE]", "[TECH_STACK]",
      "[FRAMEWORK]", "[MIN_VERSION]", "[PACKAGE_MANAGER]">>

\* the number of patterns in project_indicators
project_indicators == 5

\* self.rules_dir, as it is printed
rules_dir == ".cursor/rules"

\* ', '.join(names)
RECURSIVE join(_)
join(names) ==
    IF names = <<>> THEN ""
    ELSE IF Len(names) = 1 THEN names[1]
    ELSE names[1] \o ", " \o join(Tail(names))

\* ValidationResult.__init__
ValidationResult == [passed |-> 0, warnings |-> 0, errors |-> 0, messages |-> <<>>]

\* ValidationResult.add_pass, add_warning, add_error: the result after the call
add_pass(r, text) ==
    [r EXCEPT !.passed = @ + 1, !.messages = Append(@, <<"pass", text>>)]

\* add_warning that counts the warning as an error
add_warning_as_error(r, text) ==
    [r EXCEPT !.errors = @ + 1, !.messages = Append(@, <<"warning", text>>)]

add_warning(r, text) ==
    [r EXCEPT !.warnings = @ + 1, !.messages = Append(@, <<"warning", text>>)]

add_error(r, text) ==
    [r EXCEPT !.errors = @ + 1, !.messages = Append(@, <<"error", text>>)]

\* a rule file that does not exist
Missing ==
    [exists |-> FALSE, read |-> "ok", starts |-> "other", description |-> FALSE,
     placeholders |-> <<>>, indicators |-> 0, refs |-> {}, keywords |-> FALSE,
     small |-> FALSE, replacement |-> FALSE]

\* a customized rule file in MDC format: front matter with a description, no
\* placeholder left, all project indicators and keywords present; it
\*   read          "ok", or the exception read_text raises;
\*   starts        "---", "#" or "other": how the content starts;
\*   description   'description:' is within the first 500 characters;
\*   placeholders  the placeholders the content still holds;
\*   indicators    how many project_indicators match the content;
\*   refs          the rule files the content refers to;
\*   keywords      at least 70% of the file's keywords are in the content;
\*   small         the file has fewer than 100 bytes;
\*   replacement   the content holds the Unicode replacement character
Customized ==
    [exists |-> TRUE, read |-> "ok", starts |-> "---", description |-> TRUE,
     placeholders |-> <<>>, indicators |-> project_indicators, refs |-> {},
     keywords |-> TRUE, small |-> FALSE, replacement |-> FALSE]

\* the rule files of the model: a customized file changed in one respect
FileStates ==
    {Missing}
      \cup {[Customized EXCEPT !.read = e] :
                e \in {"ok", "UnicodeDecodeError", "PermissionError"}}
      \cup {[Customized EXCEPT !.starts = st, !.description = d] :
                st \in {"---", "#", "other"}, d \in BOOLEAN}
      \cup {[Customized EXCEPT !.placeholders = ps, !.indicators = n] :
                ps \in {<<>>, <<"[PROJECT_NAME]">>, placeholders},
                n \in {0, project_indicators}}
      \cup {[Customized EXCEPT !.refs = R] : R \in SUBSET {F010, F012}}
      \cup {[Customized EXCEPT !.keywords = FALSE],
            [Customized EXCEPT !.small = TRUE],
            [Customized EXCEPT !.replacement = TRUE]}

\* the project directories of the model: without .cursor/rules no rule file
\* exists, and without .cursor there is no rules directory and no .md file
Projects ==
    {p \in [cursor_dir : BOOLEAN, rules_dir : BOOLEAN, md_files : BOOLEAN,
            legacy : BOOLEAN, files : [{F010, F012} -> FileStates]] :
        /\ p.rules_dir => p.cursor_dir
        /\ p.md_files => p.cursor_dir
        /\ ~p.rules_dir => \A f \in {F010, F012} : p.files[f] = Missing}

-----------------------------------------------------------------------------
(* The methods of CursorRulesValidator.  A method takes the run so far,     *)
(* R = [result, reads, out, exc]: the ValidationResult, the files read, the *)
(* lines printed and the exception under way ("none" if none), and the      *)
(* project p, and gives the run after it.                                   *)

\* the run when the validator has been constructed
NewRun == [result |-> ValidationResult, reads |-> <<>>, out |-> <<>>, exc |-> "none"]

\* str(e) of the exception read_text raised on filename
read_error(e, filename) ==
    IF e = "UnicodeDecodeError"
    THEN "'utf-8' codec can't decode byte 0xff in position 0: invalid start byte"
    ELSE "[Errno 13] Permission denied: '" \o rules_dir \o "/" \o filename \o "'"

\* the loop of validate_directory_structure over self.required_files, from i on
RECURSIVE check_required_files(_, _, _)
check_required_files(r, p, i) ==
    IF i > Len(required_files) THEN r
    ELSE LET filename == required_files[i]
             shown == filename \o " (" \o description(filename) \o ")"
         IN  check_required_files(
                 IF p.files[filename].exists THEN add_pass(r, "Found " \o shown)
                 ELSE add_error(r, "Missing " \o shown),
                 p, i + 1)

\* validate_directory_structure without the return after the missing directory
validate_directory_structure_no_return(R, p) ==
    LET R1 == [R EXCEPT !.out = @ \o <<"Checking Directory Structure...">>]
        r1 == IF ~p.rules_dir
              THEN add_error(R1.result, "Rules directory not found: " \o rules_dir)
              ELSE add_pass(R1.result, "Rules directory exists: " \o rules_dir)
        r2 == check_required_files(r1, p, 1)
        r3 == IF p.legacy
              THEN add_warning(r2,
                     "Found legacy .cursorrules file - consider removing to avoid conflicts")
              ELSE r2
    IN  [R1 EXCEPT !.result = r3]

validate_directory_structure(R, p) ==
    LET R1 == [R EXCEPT !.out = @ \o <<"Checking Directory Structure...">>]
    IN  IF ~p.rules_dir
        THEN [R1 EXCEPT !.result = add_error(@, "Rules directory not found: " \o rules_dir)]
        ELSE LET r1 == add_pass(R1.result, "Rules directory exists: " \o rules_dir)
                 r2 == check_required_files(r1, p, 1)
                 r3 == IF p.legacy
                       THEN add_warning(r2,
                              "Found legacy .cursorrules file - consider removing to avoid conflicts")
                       ELSE r2
             IN  [R1 EXCEPT !.result = r3]

\* the format test of _check_file_content
format_check(r, filename, f) ==
    IF f.starts # "---" /\ f.description
    THEN add_pass(r, filename \o ": Proper MDC format with metadata")
    ELSE IF f.starts = "#"
    THEN add_pass(r, filename \o ": Valid Markdown format")
    ELSE add_warning(r, filename \o ": Unusual file format detected")

\* _check_file_content(filename, content), for the content of file f
check_file_content(r, filename, f) ==
    LET r1 == IF f.placeholders # <<>>
              THEN add_warning(r, filename \o ": Contains unreplaced placeholders: "
                                     \o join(f.placeholders))
              ELSE add_pass(r, filename \o ": Placeholders appear to be customized")
        r2 == format_check(r1, filename, f)
    IN  IF f.refs # {}
        THEN add_pass(r2, filename \o ": Contains " \o ToString(Cardinality(f.refs))
                            \o " cross-rule references")
        ELSE r2

\* the loop of validate_file_content, from i on
RECURSIVE content_loop(_, _, _)
content_loop(R, p, i) ==
    IF i > Len(required_files) THEN R
    ELSE LET filename == required_files[i]
             f == p.files[filename]
         IN  IF ~f.exists THEN content_loop(R, p, i + 1)
             ELSE content_loop(
                     [R EXCEPT !.reads = Append(@, filename),
                               !.result =
                                   IF f.read = "ok" THEN check_file_content(@, filename, f)
                                   ELSE add_error(@, "Could not read " \o filename \o ": "
                                                        \o read_error(f.read, filename))],
                     p, i + 1)

validate_file_content(R, p) ==
    content_loop([R EXCEPT !.out = @ \o <<"", "Checking File Content...">>], p, 1)

\* the rule files that exist, in the order of self.required_files
existing_files(p) == SelectSeq(required_files, LAMBDA filename : p.files[filename].exists)

\* the rule files that exist and can be read
readable_files(p) ==
    SelectSeq(required_files,
              LAMBDA filename : p.files[filename].exists /\ p.files[filename].read = "ok")

\* the second loop of validate_cross_references, over self.cross_references
RECURSIVE check_targets(_, _, _, _)
check_targets(r, p, all_references, i) ==
    IF i > Len(required_files) THEN r
    ELSE LET target_file == required_files[i]
             shown == "Cross-reference " \o ref_pattern(target_file) \o " -> "
         IN  check_targets(
                 IF target_file \notin all_references THEN r
                 ELSE IF p.files[target_file].exists
                 THEN add_pass(r, shown \o target_file)
                 ELSE add_error(r, shown \o "MISSING " \o target_file),
                 p, all_references, i + 1)

validate_cross_references(R, p) ==
    LET readable == readable_files(p)
        all_references == UNION {p.files[readable[k]].refs : k \in DOMAIN readable}
        r1 == check_targets(R.result, p, all_references, 1)
        r2 == IF all_references # {}
              THEN add_pass(r1, "Found " \o ToString(Cardinality(all_references))
                                  \o " total cross-rule references")
              ELSE add_warning(r1,
                     "No cross-rule references found - integration may not work properly")
    IN  [R EXCEPT !.out = @ \o <<"", "Checking Cross-Rule References...">>,
                  !.reads = @ \o existing_files(p),
                  !.result = r2]

\* _calculate_customization_score, as the checks passed out of total_checks
passed_checks(f) == (Len(placeholders) - Len(f.placeholders)) + f.indicators
total_checks == Len(placeholders) + project_indicators

\* f"{num / den:.1f}", for num / den >= 0 not halfway between two tenths
one_decimal(num, den) ==
    LET tenths == (2 * 10 * num + den) \div (2 * den)
    IN  ToString(tenths \div 10) \o "." \o ToString(tenths % 10)

RECURSIVE sum_passed(_, _, _)
sum_passed(p, names, i) ==
    IF i > Len(names) THEN 0
    ELSE passed_checks(p.files[names[i]]) + sum_passed(p, names, i + 1)

\* the lines validate_customization_level prints for the files when detailed
RECURSIVE score_lines(_, _, _)
score_lines(p, names, i) ==
    IF i > Len(names) THEN <<>>
    ELSE LET passed == passed_checks(p.files[names[i]])
             status == IF passed * 100 >= 70 * total_checks THEN "pass"
                       ELSE IF passed * 100 >= 40 * total_checks THEN "warning"
                       ELSE "error"
         IN  <<"  " \o status \o " " \o names[i] \o ": "
                    \o one_decimal(passed * 100, total_checks) \o "%">>
             \o score_lines(p, names, i + 1)

validate_customization_level(R, p, detailed) ==
    LET R1 == [R EXCEPT !.out = @ \o <<"", "Checking Customization Level...">>,
                        !.reads = @ \o existing_files(p)]
        scored == readable_files(p)
        n == Len(scored)
        total == sum_passed(p, scored, 1)
        avg_score == one_decimal(total * 100, total_checks * n)
    IN  IF n = 0 THEN R1
        ELSE [R1 EXCEPT
                 !.result =
                     IF total * 100 >= 80 * total_checks * n
                     THEN add_pass(@, "High customization level: " \o avg_score \o "%")
                     ELSE IF total * 100 >= 50 * total_checks * n
                     THEN add_warning(@, "Moderate customization level: " \o avg_score \o "%")
                     ELSE add_warning(@, "Low customization level: " \o avg_score
                                           \o "% - consider using design doc integration"),
                 !.out = IF detailed THEN @ \o score_lines(p, scored, 1) ELSE @]

\* the loop of validate_integration_keywords over keyword_files, from i on
RECURSIVE keyword_loop(_, _, _)
keyword_loop(R, p, i) ==
    IF i > Len(required_files) THEN R
    ELSE LET filename == required_files[i]
             f == p.files[filename]
         IN  IF filename \notin keyword_files \/ ~f.exists THEN keyword_loop(R, p, i + 1)
             ELSE keyword_loop(
                     [R EXCEPT !.reads = Append(@, filename),
                               !.result =
                                   IF f.read # "ok" THEN @
                                   ELSE IF f.keywords
                                   THEN add_pass(@, filename \o ": Auto-trigger keywords configured")
                                   ELSE add_warning(@, filename \o ": Missing some auto-trigger keywords")],
                     p, i + 1)

validate_integration_keywords(R, p) ==
    keyword_loop([R EXCEPT !.out = @ \o <<"", "Checking Auto-Trigger Keywords...">>], p, 1)

\* the loop of check_common_issues that looks for empty files, from i on
RECURSIVE small_loop(_, _, _)
small_loop(r, p, i) ==
    IF i > Len(required_files) THEN r
    ELSE LET filename == required_files[i]
             f == p.files[filename]
         IN  small_loop(IF f.exists /\ f.small
                        THEN add_warning(r, filename \o ": File is very small (< 100 bytes)")
                        ELSE r,
                        p, i + 1)

\* the loop of check_common_issues that looks for encoding issues, from i on:
\* only UnicodeDecodeError is caught there, any other exception ends the loop
RECURSIVE encoding_loop(_, _, _)
encoding_loop(R, p, i) ==
    IF i > Len(required_files) THEN R
    ELSE LET filename == required_files[i]
             f == p.files[filename]
         IN  IF ~f.exists THEN encoding_loop(R, p, i + 1)
             ELSE LET R1 == [R EXCEPT !.reads = Append(@, filename)]
                  IN  IF f.read = "ok"
                      THEN encoding_loop(
                              IF f.replacement
                              THEN [R1 EXCEPT !.result =
                                       add_error(@, filename \o ": Contains encoding errors")]
                              ELSE R1,
                              p, i + 1)
                      ELSE IF f.read = "UnicodeDecodeError"
                      THEN encoding_loop(
                              [R1 EXCEPT !.result =
                                  add_error(@, filename \o ": UTF-8 encoding error")],
                              p, i + 1)
                      ELSE [R1 EXCEPT !.exc = f.read]

check_common_issues(R, p) ==
    LET R1 == [R EXCEPT !.out = @ \o <<"", "Checking Common Issues...">>]
        r1 == IF p.cursor_dir /\ p.md_files
              THEN add_warning(R1.result,
                      "Found .md files in .cursor/ - should be .mdc: ['notes.md']")
              ELSE R1.result
    IN  encoding_loop([R1 EXCEPT !.result = small_loop(r1, p, 1)], p, 1)

\* the lines of the loop that prints self.result.messages, from i on
RECURSIVE message_lines(_, _)
message_lines(messages, i) ==
    IF i > Len(messages) THEN <<>>
    ELSE <<"  " \o messages[i][1] \o " " \o messages[i][2]>>
         \o message_lines(messages, i + 1)

\* overall_status of ValidationResult.print_summary
overall_status(r) == IF r.errors = 0 THEN "GOOD" ELSE "NEEDS ATTENTION"

\* the lines ValidationResult.print_summary prints
print_summary(r) ==
    <<"", "=== VALIDATION SUMMARY ===",
      "Passed: " \o ToString(r.passed),
      "Warnings: " \o ToString(r.warnings),
      "Errors: " \o ToString(r.errors),
      "", "Overall Status: " \o overall_status(r)>>

\* the rule files that do not exist, in the order of self.required_files
missing_files(p) == SelectSeq(required_files, LAMBDA filename : ~p.files[filename].exists)

\* the lines generate_suggestions prints
generate_suggestions(r, p) ==
    <<"", "Recommendations...">>
    \o (IF r.errors > 0
        THEN <<"Required Actions:">>
             \o (IF ~p.rules_dir
                 THEN <<"  * Create .cursor/rules directory and copy .mdc files">>
                 ELSE <<>>)
             \o (IF missing_files(p) # <<>>
                 THEN <<"  * Copy missing files: " \o join(missing_files(p))>>
                 ELSE <<>>)
        ELSE <<>>)
    \o (IF r.warnings > 0
        THEN <<"Suggested Improvements:",
               "  * Use design doc integration for better customization",
               "  * Replace placeholder values with project specifics",
               "  * Test with: 'Following our project rules, help me plan a feature'">>
        ELSE <<>>)
    \o (IF r.errors = 0 /\ r.warnings <= 2
        THEN <<"Great job! Your setup looks good.",
               "  * Try: 'Load our task list and show priorities'",
               "  * Try: 'Use RIPER methodology for this implementation'">>
        ELSE <<>>)

\* mutant: the run also fails on a warning
succeeded_without_warnings(r) == r.errors = 0 /\ r.warnings = 0

\* the value run_full_validation returns: self.result.errors == 0
succeeded(r) == r.errors = 0

-----------------------------------------------------------------------------
(* The validator as a process: main() parses the flags and constructs the   *)
(* validator, run_full_validation calls the six checks in order, reports,   *)
(* and main exits with the status.                                          *)

\* the run so far, and the step that makes R2 the run and goes on to `next`
CurrentRun == [result |-> result, reads |-> reads, out |-> stdout, exc |-> exc]

Step(method, R2, next) ==
    /\ result' = R2.result
    /\ reads' = R2.reads
    /\ stdout' = R2.out
    /\ exc' = R2.exc
    /\ trace' = Append(trace, <<method, IF R2.exc = "none" THEN "returned" ELSE "raised">>)
    /\ pc' = next
    /\ UNCHANGED <<fn, args, locals, ret, stderr, exit_status, fs>>

\* the command lines of the model: --detailed and --fix-common-issues, or not
Flags == [project_root : {"."}, detailed : BOOLEAN, fix_common_issues : BOOLEAN]

ValidatorInit ==
    /\ pc = "ready"
    /\ fn = "none"
    /\ args = NoArgs
    /\ locals = NoLocals
    /\ trace = <<>>
    /\ ret = <<>>
    /\ exc = "none"
    /\ stdout = <<>>
    /\ stderr = <<>>
    /\ exit_status = <<>>
    /\ fs \in Projects
    /\ result = NoResult
    /\ reads = <<>>

\* main() up to the call of run_full_validation
validator_main ==
    /\ pc = "ready"
    /\ \E flags \in Flags :
          /\ args' = flags
          /\ stdout' = IF flags.fix_common_issues
                       THEN <<"Auto-fix not implemented yet. Please fix issues manually.">>
                       ELSE <<>>
    /\ fn' = "main"
    /\ result' = ValidationResult
    /\ pc' = "run_full_validation"
    /\ UNCHANGED <<locals, trace, ret, exc, stderr, exit_status, fs, reads>>

\* run_full_validation(detailed) up to the first check
run_full_validation ==
    /\ pc = "run_full_validation"
    /\ locals' = ("detailed" :> args.detailed)
    /\ stdout' = stdout \o <<"Cursor AI Agent Rules System - Setup Validation",
                            "Project: /project", "Rules Directory: " \o rules_dir>>
    /\ trace' = <<>>
    /\ pc' = "validate_directory_structure"
    /\ UNCHANGED <<fn, args, ret, exc, stderr, exit_status, fs, result, reads>>

call_validate_directory_structure ==
    /\ pc = "validate_directory_structure"
    /\ Step("validate_directory_structure",
            validate_directory_structure(CurrentRun, fs), "validate_file_content")

call_validate_file_content ==
    /\ pc = "validate_file_content"
    /\ Step("validate_file_content",
            validate_file_content(CurrentRun, fs), "validate_cross_references")

call_validate_cross_references ==
    /\ pc = "validate_cross_references"
    /\ Step("validate_cross_references",
            validate_cross_references(CurrentRun, fs), "validate_customization_level")

call_validate_customization_level ==
    /\ pc = "validate_customization_level"
    /\ Step("validate_customization_level",
            validate_customization_level(CurrentRun, fs, locals["detailed"]),
            "validate_integration_keywords")

call_validate_integration_keywords ==
    /\ pc = "validate_integration_keywords"
    /\ Step("validate_integration_keywords",
            validate_integration_keywords(CurrentRun, fs), "check_common_issues")

\* check_common_issues; an exception it lets through ends run_full_validation
call_check_common_issues ==
    /\ pc = "check_common_issues"
    /\ LET R2 == check_common_issues(CurrentRun, fs)
       IN  Step("check_common_issues", R2,
                IF R2.exc = "none" THEN "report" ELSE "uncaught")

\* the rest of run_full_validation: the messages, the summary, the
\* recommendations, and the value returned
report ==
    /\ pc = "report"
    /\ stdout' = stdout \o <<"", "Detailed Results:">> \o message_lines(result.messages, 1)
                        \o print_summary(result) \o generate_suggestions(result, fs)
    /\ ret' = <<succeeded(result)>>
    /\ pc' = "returned"
    /\ UNCHANGED <<fn, args, locals, trace, exc, stderr, exit_status, fs, result, reads>>

\* main() after run_full_validation returned: sys.exit(0 if success else 1)
main_exits ==
    /\ pc = "returned"
    /\ fn = "main"
    /\ locals' = locals @@ ("success" :> ret[1])
                        @@ ("exit_code" :> IF ret[1] THEN 0 ELSE 1)
    /\ exit_status' = <<IF ret[1] THEN 0 ELSE 1>>
    /\ pc' = "exited"
    /\ UNCHANGED <<fn, args, trace, ret, exc, stdout, stderr, fs, result, reads>>

\* an exception nobody catches: Python prints the traceback and exits with 1
uncaught_exception ==
    /\ pc = "uncaught"
    /\ stderr' = stderr \o <<"Traceback (most recent call last):",
                            exc \o ": " \o read_error(exc, reads[Len(reads)])>>
    /\ exit_status' = <<1>>
    /\ pc' = "exited"
    /\ UNCHANGED <<fn, args, locals, trace, ret, exc, stdout, fs, result, reads>>

ValidatorNext ==
    \/ validator_main
    \/ run_full_validation
    \/ call_validate_directory_structure
    \/ call_validate_file_content
    \/ call_validate_cross_references
    \/ call_validate_customization_level
    \/ call_validate_integration_keywords
    \/ call_check_common_issues
    \/ report
    \/ main_exits
    \/ uncaught_exception

ValidatorSpec == ValidatorInit /\ [][ValidatorNext]_vars

-----------------------------------------------------------------------------
(* Properties of the setup validator. *)

\* the entries of the log with the given symbol
Logged(symbol) == {i \in DOMAIN result.messages : result.messages[i][1] = symbol}

\* the project has a defect the validator reports as an error: no rules
\* directory, a rule file missing or unreadable, or a rule file with a
\* replacement character
C19_Defective(p) ==
    \/ ~p.rules_dir
    \/ \E filename \in DOMAIN p.files :
          \/ ~p.files[filename].exists
          \/ p.files[filename].read # "ok"
          \/ p.files[filename].replacement

\* C19: the validator's outcome depends only on the error count:
\* run_full_validation returns True exactly when no error was recorded during
\* the run, main exits with status 0 exactly in that case and with status 1
\* otherwise, and neither the warnings, however many, nor the flags
\* --fix-common-issues and --detailed change that exit status.
C19_OutcomeIsErrorCount ==
    /\ (fn = "main" /\ ret # <<>>) => (ret[1] <=> Logged("error") = {})
    /\ (fn = "main" /\ pc = "exited") =>
          /\ exit_status = <<IF Logged("error") = {} THEN 0 ELSE 1>>
          /\ exit_status = <<IF C19_Defective(fs) THEN 1 ELSE 0>>
          /\ result.errors = Cardinality(Logged("error"))

\* a run with both flags and three warnings has exited with status 0
C19_Witness ==
    /\ fn = "main"
    /\ pc = "exited"
    /\ args.detailed
    /\ args.fix_common_issues
    /\ Cardinality(Logged("warning")) >= 3
    /\ exit_status = <<0>>

-----------------------------------------------------------------------------
(* Relations between the formulas of calculate_reimbursement.py. *)

\* the arguments of a direct call of detect_outlier_case are a valid trip
C21_ValidCall ==
    /\ pc # "ready"
    /\ fn = "detect_outlier_case"
    /\ args.days >= 1
    /\ args.miles >= 0
    /\ args.receipts >= 0

C22_NextDay ==
    [args EXCEPT !.trip_duration_days = [@ EXCEPT !.v = @ + Amt(1)]]

\* the greatest mileage for which the relation is stated
C22_MaxMiles == Amt(20000)

\* C22: adding a day never lowers the reimbursement: for every valid
\* (days, miles, receipts) with miles <= 20000, the call with days + 1 returns
\* at least what the call with days returned, also when the extra day
\* changes the outlier tag.
C22_ExtraDayNeverLowers ==
    (ReturnedCR /\ ValidInput(args) /\ ArgMiles <= C22_MaxMiles) =>
        \A o \in call_outcomes(C22_NextDay) :
            /\ o.exc = "none"
            /\ Len(o.ret) = 1
            /\ o.ret[1] >= ret[1]

\* a one-day trip tagged abuse_detection at the greatest mileage, whose
\* two-day counterpart takes the normal path
C22_Witness ==
    /\ ReturnedCR
    /\ CalledWith(1, C22_MaxMiles, Amt(1800) + 1)
    /\ locals["outlier_type"] = "abuse_detection"
    /\ \A o \in call_outcomes(C22_NextDay) : o.locals["outlier_type"] = "normal"

\* a finished call that computed an outlier result for a valid input that
\* detect_outlier_case tags t: the call of calculate_reimbursement, or a
\* direct call of calculate_outlier_reimbursement with the input's own tag
C23_Tagged(t) ==
    \/ /\ ReturnedCR
       /\ ValidInput(args)
       /\ locals["outlier_type"] = t
    \/ /\ Returned("calculate_outlier_reimbursement")
       /\ args.days >= 1 /\ args.miles >= 0 /\ args.receipts >= 0
       /\ args.outlier_type = t
       /\ detect_outlier_case(args.days, args.miles, args.receipts) = t

\* the input of that call
C23_Input ==
    IF fn = "calculate_reimbursement"
    THEN [days |-> locals["days"], miles |-> locals["miles"],
          receipts |-> locals["receipts"]]
    ELSE [days |-> args.days, miles |-> args.miles, receipts |-> args.receipts]

\* the outlier result of that call, before any rounding
C23_OutlierResult ==
    IF fn = "calculate_reimbursement" THEN locals["total"] ELSE ret[1]

\* what the normal path gives for the same input, before rounding
C23_Normal ==
    normal_path(NoLocals, <<>>, C23_Input.days, C23_Input.miles,
                C23_Input.receipts).locals["total"]

\* 0.05 * miles compared with 778 + 0.18 * receipts
C23_MilesBelow ==
    Times(C23_Input.miles, 50) < Dollars(778) + Times(C23_Input.receipts, 180)

C23_MilesAbove ==
    Times(C23_Input.miles, 50) > Dollars(778) + Times(C23_Input.receipts, 180)

\* C23: outlier handling caps: for every valid input tagged gaming_detection
\* or heavy_cap the outlier result is strictly lower than the normal
\* high-receipt formula 100 + 20*days + 0.3*miles + banded(receipts) for the
\* same input; for abuse_detection it is strictly lower exactly when
\* 0.05*miles < 778 + 0.18*receipts, and exceeds the normal formula for
\* larger miles.
C23_OutlierBelowNormalHigh ==
    /\ (\E t \in {"gaming_detection", "heavy_cap", "abuse_detection"} : C23_Tagged(t)) =>
          /\ receipt_level(C23_Input.receipts) = "high"
          /\ C23_Normal = Dollars(100) + Dollars(C23_Input.days * 20)
                          + Times(C23_Input.miles, 300)
                          + calculate_receipt_component(C23_Input.receipts)
    /\ (C23_Tagged("gaming_detection") \/ C23_Tagged("heavy_cap")) =>
          C23_OutlierResult < C23_Normal
    /\ C23_Tagged("abuse_detection") =>
          /\ (C23_OutlierResult < C23_Normal) <=> C23_MilesBelow
          /\ C23_MilesAbove => C23_OutlierResult > C23_Normal

\* an abuse_detection trip whose mileage is past the crossing: the outlier
\* result is the higher one
C23_Witness ==
    /\ C23_Tagged("abuse_detection")
    /\ CalledWith(1, Amt(25000), Amt(1800) + 1)
    /\ C23_MilesAbove
    /\ C23_OutlierResult > C23_Normal

\* the crossing itself: both formulas give the same amount
C23_AtCrossing ==
    /\ C23_Tagged("abuse_detection")
    /\ C23_OutlierResult = C23_Normal

\* the project has no .cursor/rules directory
C25_NoRulesDir == fs # NoProject /\ ~fs.rules_dir

\* the log holds (symbol, text)
Records(symbol, text) ==
    \E i \in DOMAIN result.messages : result.messages[i] = <<symbol, text>>

\* C25: when the .cursor/rules directory does not exist, run_full_validation
\* records exactly one error, the missing rules directory, and no per-file
\* 'Missing' error; it records the 'No cross-rule references found' warning,
\* never reads a rule file, and returns False.
C25_MissingRulesDirectory ==
    C25_NoRulesDir =>
        /\ reads = <<>>
        /\ pc # "uncaught"
        /\ pc \in {"returned", "exited"} =>
              /\ result.errors = 1
              /\ \A i \in Logged("error") :
                    result.messages[i][2] = "Rules directory not found: " \o rules_dir
              /\ Cardinality(Logged("error")) = 1
              /\ Records("warning",
                     "No cross-rule references found - integration may not work properly")
              /\ ret = <<FALSE>>

\* run_full_validation has returned for a project without the rules directory
C25_Witness ==
    /\ C25_NoRulesDir
    /\ pc = "returned"
    /\ ret = <<FALSE>>
    /\ result.errors = 1

\* _check_file_content has been called on the content of the rule file
C26_Checked(filename) ==
    /\ fs # NoProject
    /\ fs.files[filename].exists
    /\ fs.files[filename].read = "ok"
    /\ \E i \in DOMAIN trace : trace[i] = <<"validate_file_content", "returned">>

\* the content begins with the front-matter delimiter and has 'description:'
\* within its first 500 characters
C26_Mdc(f) == f.starts = "---" /\ f.description

\* C26: _check_file_content records the pass 'Proper MDC format with
\* metadata' for a rule file whose content begins with '---' and contains
\* 'description:' within its first 500 characters, and records the 'Unusual
\* file format detected' warning only for content that is neither such MDC
\* content nor Markdown starting with '#'.
C26_FrontMatterIsProperMdc ==
    \A filename \in {F010, F012} :
        C26_Checked(filename) =>
            /\ C26_Mdc(fs.files[filename]) =>
                  Records("pass", filename \o ": Proper MDC format with metadata")
            /\ Records("warning", filename \o ": Unusual file format detected") =>
                  /\ ~C26_Mdc(fs.files[filename])
                  /\ fs.files[filename].starts # "#"

-----------------------------------------------------------------------------
(* A ValidationResult on its own: the object after construction, receiving  *)
(* any sequence of add_pass, add_warning and add_error calls.  fn and args  *)
(* hold the last call made.                                                 *)

\* the longest sequence of calls
MaxCalls == 4

\* the messages passed to the calls
Messages == {"Rules directory exists", "Missing: " \o F010}

ResultInit ==
    /\ pc = "ready"
    /\ fn = "__init__"
    /\ args = NoArgs
    /\ locals = NoLocals
    /\ trace = <<>>
    /\ ret = <<>>
    /\ exc = "none"
    /\ stdout = <<>>
    /\ stderr = <<>>
    /\ exit_status = <<>>
    /\ fs = NoProject
    /\ result = ValidationResult
    /\ reads = <<>>

\* result.method(text), where after is the object the method leaves
method_call(method, text, after) ==
    /\ Len(result.messages) < MaxCalls
    /\ fn' = method
    /\ args' = [message |-> text]
    /\ result' = after
    /\ UNCHANGED <<pc, locals, trace, ret, exc, stdout, stderr, exit_status, fs, reads>>

invoke_add_pass ==
    \E text \in Messages : method_call("add_pass", text, add_pass(result, text))

invoke_add_warning ==
    \E text \in Messages : method_call("add_warning", text, add_warning(result, text))

invoke_add_error ==
    \E text \in Messages : method_call("add_error", text, add_error(result, text))

ResultNext ==
    \/ invoke_add_pass
    \/ invoke_add_warning
    \/ invoke_add_error

ResultSpec == ResultInit /\ [][ResultNext]_vars

\* the three counters of a ValidationResult
C24_Counters == {"passed", "warnings", "errors"}

\* the step is one call that counts in `counter` and logs under `symbol`
C24_OneCall(counter, symbol) ==
    /\ result'[counter] = result[counter] + 1
    /\ \A c \in C24_Counters \ {counter} : result'[c] = result[c]
    /\ Len(result'.messages) = Len(result.messages) + 1
    /\ SubSeq(result'.messages, 1, Len(result.messages)) = result.messages
    /\ result'.messages[Len(result'.messages)] = <<symbol, args'.message>>

\* C24: a ValidationResult keeps its counters consistent with its log: after
\* any sequence of add_pass, add_warning and add_error calls
\* passed + warnings + errors is the number of entries of messages; each call
\* raises exactly one counter by one, appends exactly one message at the end
\* and leaves the other two counters and all earlier messages as they were;
\* no counter ever decreases.
C24_CountersMatchLog ==
    /\ [](result.passed + result.warnings + result.errors = Len(result.messages))
    /\ [][/\ fn' = "add_pass" => C24_OneCall("passed", "pass")
          /\ fn' = "add_warning" => C24_OneCall("warnings", "warning")
          /\ fn' = "add_error" => C24_OneCall("errors", "error")
          /\ fn' \in {"add_pass", "add_warning", "add_error"}
          /\ \A c \in C24_Counters : result'[c] >= result[c]]_vars

\* one call of each method has been made, the warning last
C24_Witness ==
    /\ fn = "add_warning"
    /\ result.passed = 1 /\ result.warnings = 1 /\ result.errors = 1
    /\ Len(result.messages) = 3
    /\ result.messages[3][1] = "warning"

=============================================================================
